---- MODULE Spec2Model ----
(***************************************************************************)
(* HierCC.py: hierarchical clustering complex of MLST allelic profiles.    *)
(*                                                                         *)
(* One behaviour is a sequence of invocations of hierCC() on a growing     *)
(* profile file: a first invocation without --append (full single-linkage  *)
(* clustering), then invocations with --append fed the snapshot of the     *)
(* previous one.                                                           *)
(*                                                                         *)
(* Index conventions.  Python is 0-based, TLA+ sequences are 1-based:      *)
(*   - a profile row  <<id, a_1, ..., a_L>>  is mat[k] (Python mat[k-1]);   *)
(*   - a result row   <<id, c_0, ..., c_L>>  is res[k]; the code at         *)
(*     threshold t is res[k][t+2] (Python res[k-1, t+1]);                  *)
(*   - the slice  r[x+1:]  of Python is the columns  x+2..Len(r)  here;     *)
(*   - dendrogram node numbers are kept 0-based as scipy emits them        *)
(*     (leaf x is mat[x+1], merge idx creates node idx + n).               *)
(***************************************************************************)
EXTENDS Integers, Sequences, FiniteSets, TLC

\* ---- bounds of the model ------------------------------------------------
NLoci == 2          \* loci per profile in the general specification
MaxAllele == 2      \* allele calls are drawn from 0..MaxAllele (0 = missing)
MaxFull == 3        \* profiles in the file of the first (full) run: 2..MaxFull
MaxProfiles == 4    \* profiles in the file after all append runs
MaxNew == 2         \* profiles added to the file before one append run
MaxRuns == 3        \* invocations of hierCC per behaviour
IdSlack == 1        \* ids are drawn from 1..(number of profiles + IdSlack)

VARIABLES
    file,           \* the profile file (after prepare_mat), in file order
    saved,          \* the snapshot <output>.npz written by the last finished run
    cls,            \* od['hierCC'], the snapshot loaded by an append run
    append,         \* params.append is set
    mat,            \* the profile matrix in processing order
    start,          \* number of already-typed profiles
    res,            \* the code matrix being built
    slc,            \* merge events of scipy linkage, <<c0, c1, dist>>
    descendents,    \* node number -> list of profile ids below it
    idx,            \* merge events already encoded
    att,            \* loop variable `id` of the attachment loop
    pc,             \* position of the run
    runs            \* invocations started so far

vars == <<file, saved, cls, append, mat, start, res, slc, descendents, idx, att, pc, runs>>

\* ---- small helpers --------------------------------------------------------
SetMin(S) == CHOOSE x \in S : \A y \in S : x <= y

SetMax(S) == CHOOSE x \in S : \A y \in S : x >= y

SeqMin(s) == SetMin({s[j] : j \in 1..Len(s)})

Range(s) == {s[j] : j \in 1..Len(s)}

ColZero(m) == [k \in 1..Len(m) |-> m[k][1]]

n_loci(m) == Len(m[1]) - 1

\* ---- getDistance (not part of src/; modelled from the interface) ----------
Dist(p, q) ==
    Cardinality({k \in 2..Len(p) : p[k] > 0 /\ q[k] > 0 /\ p[k] # q[k]})

SynDist(m) == [i \in 1..Len(m) |-> [j \in 1..Len(m) |-> Dist(m[i], m[j])]]

AsynDist(m, s) ==
    [r \in 1..(Len(m) - s) |-> [j \in 1..Len(m) |-> Dist(m[s + r], m[j])]]

\* ---- lines 66-91: ordering, typed, start, res -----------------------------
absence(row) == Cardinality({j \in 1..Len(row) : row[j] <= 0})

RECURSIVE SortFrom(_, _)
SortFrom(m, a) ==
    IF a > Len(m[1]) THEN <<>>
    ELSE LET Has(row) == absence(row) = a
         IN SelectSeq(m, Has) \o SortFrom(m, a + 1)

MergeSortByAbsence(m) == SortFrom(m, 0)

typed(c) ==
    [s \in {c[j][1] : j \in {x \in 1..Len(c) : c[x][1] > 0}} |->
        SetMax({j \in 1..Len(c) : c[j][1] = s})]

OrderedMat(f, c, app) ==
    LET m0 == IF app THEN f ELSE MergeSortByAbsence(f)
        ty == IF app THEN DOMAIN typed(c) ELSE {}
        IsTyped(row) == row[1] \in ty
        NotTyped(row) == row[1] \notin ty
    IN IF ty # {} THEN SelectSeq(m0, IsTyped) \o SelectSeq(m0, NotTyped) ELSE m0

StartOf(f, c, app) ==
    LET ty == IF app THEN DOMAIN typed(c) ELSE {}
    IN Cardinality({k \in 1..Len(f) : f[k][1] \in ty})

InitRes(m) ==
    LET big == SetMax(Range(ColZero(m))) + 100
    IN [k \in 1..Len(m) |->
          [col \in 1..(Len(m[k]) + 1) |->
              IF col > 1 /\ m[k][1] < 0 THEN big ELSE m[k][1]]]

\* mutant: the prior row is taken by position instead of by id
SeedResByPosition(r, c, app) ==
    IF app
    THEN [k \in 1..Len(r) |->
            IF r[k][1] \in DOMAIN typed(c) THEN c[k] ELSE r[k]]
    ELSE r

SeedRes(r, c, app) ==
    IF app
    THEN [k \in 1..Len(r) |->
            IF r[k][1] \in DOMAIN typed(c) THEN c[typed(c)[r[k][1]]] ELSE r[k]]
    ELSE r

\* ---- line 96: scipy linkage(method='single') ------------------------------
\* Every merge order single linkage allows: each event merges two live
\* clusters at minimum inter-cluster distance; ties are left open.
RECURSIVE Linkages(_, _, _)
Linkages(D, members, n_id) ==
    IF Cardinality(DOMAIN members) < 2 THEN {<<>>}
    ELSE LET pairs == {pr \in (DOMAIN members) \X (DOMAIN members) : pr[1] < pr[2]}
             cd(pr) == SetMin({D[i][j] : i \in members[pr[1]], j \in members[pr[2]]})
             dmin == SetMin({cd(pr) : pr \in pairs})
             merged(pr) ==
                 [x \in ((DOMAIN members) \ {pr[1], pr[2]}) \cup {n_id} |->
                     IF x = n_id THEN members[pr[1]] \cup members[pr[2]]
                     ELSE members[x]]
         IN UNION {{<<<<pr[1], pr[2], dmin>>>> \o s :
                        s \in Linkages(D, merged(pr), n_id + 1)} :
                    pr \in {q \in pairs : cd(q) = dmin}}

linkage(m) ==
    Linkages(SynDist(m), [x \in 0..(Len(m) - 1) |-> {x + 1}], Len(m))

\* ---- lines 98-106: encoding of the dendrogram -----------------------------
index(m, s) == CHOOSE k \in 1..Len(m) : m[k][1] = s

InitDescendents(m) ==
    [x \in 0..(2 * Len(m) - 2) |-> IF x < Len(m) THEN <<m[x + 1][1]>> ELSE <<>>]

\* mutant: the pair is taken in scipy's order, not sorted by first descendant
SortByFirstUnsorted(desc, a, b) == <<a, b>>

SortByFirst(desc, a, b) ==
    IF desc[b][1] < desc[a][1] THEN <<b, a>> ELSE <<a, b>>

EncodeDesc(desc, c, n_id) ==
    LET d == SortByFirst(desc, c[1], c[2])
    IN [desc EXCEPT ![n_id] = desc[d[1]] \o desc[d[2]]]

\* mutant: the copy starts one column late (thresholds > dist, not >= dist)
EncodeResLate(m, r, desc, c) ==
    LET d == SortByFirst(desc, c[1], c[2])
        min_id == SeqMin(desc[d[1]])
        anchor == r[index(m, min_id)]
        tgts == Range(desc[d[2]])
    IN [k \in 1..Len(r) |->
          IF m[k][1] \in tgts
          THEN [col \in 1..Len(r[k]) |->
                  IF col >= c[3] + 3 THEN anchor[col] ELSE r[k][col]]
          ELSE r[k]]

EncodeRes(m, r, desc, c) ==
    LET d == SortByFirst(desc, c[1], c[2])
        min_id == SeqMin(desc[d[1]])
        anchor == r[index(m, min_id)]
        tgts == Range(desc[d[2]])
    IN [k \in 1..Len(r) |->
          IF m[k][1] \in tgts
          THEN [col \in 1..Len(r[k]) |->
                  IF col >= c[3] + 2 THEN anchor[col] ELSE r[k][col]]
          ELSE r[k]]

\* ---- lines 108-114: attachment --------------------------------------------
\* mutant: the last of the nearest profiles instead of the first
argmax_of_min(d, k) == SetMax({i \in 1..k : \A j \in 1..k : d[i] <= d[j]})

argmin(d, k) == SetMin({i \in 1..k : \A j \in 1..k : d[i] <= d[j]})

\* mutant: the copy starts one column late (r[min_d + 2:] = res[i, min_d + 2:])
AttachResLate(r, d, k) ==
    IF k > 0
    THEN LET i == argmin(d, k)
             min_d == d[i]
         IN IF r[k + 1][min_d + 2] > r[i][min_d + 2]
            THEN [r EXCEPT ![k + 1] =
                    [col \in 1..Len(r[k + 1]) |->
                        IF col >= min_d + 3 THEN r[i][col] ELSE r[k + 1][col]]]
            ELSE r
    ELSE r

\* mutant: only the column of threshold min_d is copied
AttachResOneColumn(r, d, k) ==
    IF k > 0
    THEN LET i == argmin(d, k)
             min_d == d[i]
         IN IF r[k + 1][min_d + 2] > r[i][min_d + 2]
            THEN [r EXCEPT ![k + 1] =
                    [col \in 1..Len(r[k + 1]) |->
                        IF col = min_d + 2 THEN r[i][col] ELSE r[k + 1][col]]]
            ELSE r
    ELSE r

\* mutant: the neighbour's codes are copied without the comparison of line 113
AttachResAlways(r, d, k) ==
    IF k > 0
    THEN LET i == argmin(d, k)
             min_d == d[i]
         IN [r EXCEPT ![k + 1] =
                [col \in 1..Len(r[k + 1]) |->
                    IF col >= min_d + 2 THEN r[i][col] ELSE r[k + 1][col]]]
    ELSE r

\* mutant: the comparison of line 113 is made at threshold 0
AttachResCompareFirst(r, d, k) ==
    IF k > 0
    THEN LET i == argmin(d, k)
             min_d == d[i]
         IN IF r[k + 1][2] > r[i][2]
            THEN [r EXCEPT ![k + 1] =
                    [col \in 1..Len(r[k + 1]) |->
                        IF col >= min_d + 2 THEN r[i][col] ELSE r[k + 1][col]]]
            ELSE r
    ELSE r

AttachRes(r, d, k) ==
    IF k > 0
    THEN LET i == argmin(d, k)
             min_d == d[i]
         IN IF r[k + 1][min_d + 2] > r[i][min_d + 2]
            THEN [r EXCEPT ![k + 1] =
                    [col \in 1..Len(r[k + 1]) |->
                        IF col >= min_d + 2 THEN r[i][col] ELSE r[k + 1][col]]]
            ELSE r
    ELSE r

\* ---- the whole run as a function of its input ------------------------------
RECURSIVE EncodeAll(_, _, _, _, _)
EncodeAll(m, r, desc, s, i) ==
    IF i >= Len(s) THEN r
    ELSE EncodeAll(m, EncodeRes(m, r, desc, s[i + 1]),
                   EncodeDesc(desc, s[i + 1], i + Len(m)), s, i + 1)

RECURSIVE AttachAll(_, _, _, _)
AttachAll(m, r, s, a) ==
    IF a >= Len(m) - s THEN r
    ELSE AttachAll(m, AttachRes(r, AsynDist(m, s)[a + 1], a + s), s, a + 1)

\* the matrices a run without --append can save for the file f
FullClustering(f) ==
    LET m == OrderedMat(f, <<>>, FALSE)
    IN {AttachAll(m, EncodeAll(m, InitRes(m), InitDescendents(m), s, 0), 0, 0) :
           s \in linkage(m)}

\* ---- input spaces ---------------------------------------------------------
Rows(ids, L) == {<<i>> \o a : i \in ids, a \in [1..L -> 0..MaxAllele]}

Files(n, ids, L) ==
    {f \in [1..n -> Rows(ids, L)] : \A a, b \in 1..n : a # b => f[a][1] # f[b][1]}

ExampleProfiles == {<<1, 1, 1, 1>>, <<2, 1, 1, 2>>, <<3, 1, 2, 2>>, <<4, 9, 9, 9>>}

\* ---- the state machine ----------------------------------------------------
Fresh ==
    /\ saved = <<>>
    /\ cls = <<>>
    /\ append = FALSE
    /\ mat = <<>>
    /\ start = 0
    /\ res = <<>>
    /\ slc = <<>>
    /\ descendents = <<>>
    /\ idx = 0
    /\ att = 0
    /\ pc = "load"
    /\ runs = 1

\* The first run has at least two profiles: with one, squareform yields an
\* empty vector and scipy's linkage raises before any code is assigned.
Init ==
    /\ \E n \in 2..MaxFull : file \in Files(n, 1..(n + IdSlack), NLoci)
    /\ Fresh

InitExample ==
    /\ file \in {f \in [1..4 -> ExampleProfiles] : Range(f) = ExampleProfiles}
    /\ Fresh

\* lines 58-91
Prepare ==
    /\ pc = "load"
    /\ cls' = IF append THEN saved ELSE <<>>
    /\ mat' = OrderedMat(file, cls', append)
    /\ start' = StartOf(file, cls', append)
    /\ res' = SeedRes(InitRes(mat'), cls', append)
    /\ pc' = IF append THEN "attach" ELSE "linkage"
    /\ att' = 0
    /\ UNCHANGED <<file, saved, append, slc, descendents, idx, runs>>

\* lines 93-99
Linkage ==
    /\ pc = "linkage"
    /\ slc' \in linkage(mat)
    /\ descendents' = InitDescendents(mat)
    /\ idx' = 0
    /\ pc' = "encode"
    /\ UNCHANGED <<file, saved, cls, append, mat, start, res, att, runs>>

\* lines 100-106, one merge event
Encode ==
    /\ pc = "encode"
    /\ idx < Len(slc)
    /\ res' = EncodeRes(mat, res, descendents, slc[idx + 1])
    /\ descendents' = EncodeDesc(descendents, slc[idx + 1], idx + Len(mat))
    /\ idx' = idx + 1
    /\ UNCHANGED <<file, saved, cls, append, mat, start, slc, att, pc, runs>>

EncodeDone ==
    /\ pc = "encode"
    /\ idx = Len(slc)
    /\ pc' = "attach"
    /\ att' = 0
    /\ UNCHANGED <<file, saved, cls, append, mat, start, res, slc, descendents, idx, runs>>

\* lines 109-114, one iteration
Attach ==
    /\ pc = "attach"
    /\ att < Len(mat) - start
    /\ res' = AttachRes(res, AsynDist(mat, start)[att + 1], att + start)
    /\ att' = att + 1
    /\ UNCHANGED <<file, saved, cls, append, mat, start, slc, descendents, idx, pc, runs>>

\* lines 115-117
Save ==
    /\ pc = "attach"
    /\ att = Len(mat) - start
    /\ res' = [k \in 1..Len(res) |-> [res[k] EXCEPT ![1] = mat[k][1]]]
    /\ saved' = res'
    /\ pc' = "done"
    /\ UNCHANGED <<file, cls, append, mat, start, slc, descendents, idx, att, runs>>

\* the user adds j profiles with unused ids to the file and runs --append
NewRun(cap) ==
    /\ pc = "done"
    /\ runs < MaxRuns
    /\ \E j \in 0..MaxNew :
          /\ Len(file) + j <= cap
          /\ \E new \in Files(j, (1..(Len(file) + j + IdSlack)) \ Range(ColZero(file)),
                              n_loci(file)) :
                file' = file \o new
    /\ append' = TRUE
    /\ cls' = <<>>
    /\ mat' = <<>>
    /\ start' = 0
    /\ res' = <<>>
    /\ slc' = <<>>
    /\ descendents' = <<>>
    /\ idx' = 0
    /\ att' = 0
    /\ pc' = "load"
    /\ runs' = runs + 1
    /\ UNCHANGED saved

AppendRun == NewRun(MaxProfiles)

AppendRunExample == NewRun(Cardinality(ExampleProfiles) + 1)

Next == Prepare \/ Linkage \/ Encode \/ EncodeDone \/ Attach \/ Save \/ AppendRun

NextExample ==
    Prepare \/ Linkage \/ Encode \/ EncodeDone \/ Attach \/ Save \/ AppendRunExample

Spec == Init /\ [][Next]_vars

SpecExample == InitExample /\ [][NextExample]_vars

\* ---- vocabulary of the properties -----------------------------------------
Thresholds(m) == 0..n_loci(m)

Code(row, t) == row[t + 2]

Alleles(row) == [k \in 1..(Len(row) - 1) |-> row[k + 1]]

\* positions single-linkage connected to position p at distance <= t
RECURSIVE Grow(_, _, _)
Grow(m, S, t) ==
    LET T == S \cup {j \in 1..Len(m) : \E i \in S : Dist(m[i], m[j]) <= t}
    IN IF T = S THEN S ELSE Grow(m, T, t)

Component(m, p, t) == Grow(m, {p}, t)

FullDone == pc = "done" /\ ~append

AppendDone == pc = "done" /\ append

\* C1: after a full run the code of every profile at every threshold t is the
\* minimum id among the profiles chained to it by distances <= t, and two
\* profiles share a code at t exactly when they are so connected.
C1_MinOfComponent ==
    FullDone =>
        \A p \in 1..Len(mat) : \A t \in Thresholds(mat) :
            /\ Code(res[p], t) = SetMin({mat[q][1] : q \in Component(mat, p, t)})
            /\ \A q \in 1..Len(mat) :
                  (Code(res[p], t) = Code(res[q], t)) <=> (q \in Component(mat, p, t))

C1_Witness ==
    /\ FullDone
    /\ \E k \in 1..(Len(mat) - 1) : mat[k][1] > mat[k + 1][1]
    /\ \E p, q \in 1..Len(mat) : \E t \in Thresholds(mat) :
          /\ q \in Component(mat, p, t)
          /\ Dist(mat[p], mat[q]) > t
          /\ Code(res[p], t) = mat[q][1]

\* C2 (as stated): the example's full run yields profile1=[1,1,1,1],
\* profile2=[2,1,1,1], profile3=[3,3,1,1], profile4=[4,4,4,1].
C2_StatedRows ==
    FullDone =>
        Range(res) = {<<1, 1, 1, 1, 1>>, <<2, 2, 1, 1, 1>>,
                      <<3, 3, 3, 1, 1>>, <<4, 4, 4, 4, 1>>}

\* C2 (amended): the example's full run yields profile1=[1,1,1,1],
\* profile2=[2,1,1,1], profile3=[3,1,1,1], profile4=[4,4,4,1], whatever the
\* file order and the order of the two merges at distance 1.
C2_ExampleRows ==
    FullDone =>
        Range(res) = {<<1, 1, 1, 1, 1>>, <<2, 2, 1, 1, 1>>,
                      <<3, 3, 1, 1, 1>>, <<4, 4, 4, 4, 1>>}

C2_Witness ==
    /\ FullDone
    /\ file[1][1] = 4
    /\ slc[1] = <<1, 2, 1>>

Nearest(m, k) ==
    CHOOSE i \in 1..(k - 1) :
        /\ \A j \in 1..(k - 1) : Dist(m[k], m[i]) <= Dist(m[k], m[j])
        /\ \A j \in 1..(i - 1) : Dist(m[k], m[i]) < Dist(m[k], m[j])

MinD(m, k) == Dist(m[k], m[Nearest(m, k)])

NewPositions == {k \in (start + 1)..Len(mat) : k > 1}

RowOf(m, r, id) == r[CHOOSE k \in 1..Len(m) : m[k][1] = id]

\* C4: in an append run every profile whose id is in the prior snapshot sits
\* before position start and keeps exactly its prior row, during the
\* attachment loop and in the saved result.
C4_TypedRowsKept ==
    (append /\ pc \in {"attach", "done"}) =>
        \A k \in 1..Len(mat) :
            mat[k][1] \in DOMAIN typed(cls) =>
                /\ k <= start
                /\ res[k] = cls[typed(cls)[mat[k][1]]]
                /\ pc = "done" => saved[k] = cls[typed(cls)[mat[k][1]]]

C4_Witness ==
    /\ AppendDone
    /\ runs = 2
    /\ start >= 2
    /\ Len(mat) = start + 2
    /\ \E k \in 1..start : cls[k][1] # mat[k][1]
    /\ \A k \in (start + 1)..Len(mat) : res[k][2] # mat[k][1]

\* C5 (as stated): after an append run the code of every new profile X equals
\* the code of its nearest previously processed neighbour N at every
\* threshold t >= minD, whatever the ids of X and N.
C5_StatedEqualsNearest ==
    AppendDone =>
        \A k \in NewPositions : \A t \in Thresholds(mat) :
            t >= MinD(mat, k) => Code(res[k], t) = Code(res[Nearest(mat, k)], t)

\* C5 (amended): when N's code at threshold minD is smaller than X's id, X has
\* its own id below minD and N's code at every threshold t >= minD; otherwise
\* X keeps its own id at every threshold.
C5_PlacedWhenCodeSmaller ==
    AppendDone =>
        \A k \in NewPositions :
            LET N == Nearest(mat, k)
                minD == MinD(mat, k)
            IN \A t \in Thresholds(mat) :
                  Code(res[k], t) =
                      IF t >= minD /\ Code(res[N], minD) < mat[k][1]
                      THEN Code(res[N], t)
                      ELSE mat[k][1]

C5_Witness ==
    /\ AppendDone
    /\ \E k \in NewPositions :
          /\ MinD(mat, k) >= 1
          /\ Code(res[k], MinD(mat, k)) # mat[k][1]
          /\ \E j \in 1..(k - 1) :
                /\ j # Nearest(mat, k)
                /\ Dist(mat[k], mat[j]) = MinD(mat, k)
                /\ Code(res[j], MinD(mat, k)) # Code(res[k], MinD(mat, k))

\* the hypothesis of C6: the snapshot is the full clustering of S, X is the
\* only new profile, its nearest neighbour in S is unique and strictly closer
\* than any other pair of S \cup {X}
C6_Case ==
    /\ AppendDone
    /\ runs = 2
    /\ start = Len(mat) - 1
    /\ LET n == Len(mat)
           N == Nearest(mat, n)
       IN \A a, b \in 1..n :
              (a < b /\ <<a, b>> # <<N, n>>) => Dist(mat[a], mat[b]) > MinD(mat, n)

\* C6 (as stated): under that hypothesis the append run gives X the CodeRow a
\* full clustering of S \cup {X} gives X.
C6_StatedSameRow ==
    C6_Case =>
        \A full \in FullClustering(file) :
            RowOf(OrderedMat(file, <<>>, FALSE), full, mat[Len(mat)][1]) = res[Len(mat)]

\* C6 (amended): under that hypothesis and when N's id is smaller than X's,
\* the append run gives X the code of the full clustering of S \cup {X} at
\* every threshold t at which every profile of S within distance t of X is
\* connected to N inside S at distance <= t (so at every threshold below the
\* distance of X to its second-nearest profile).
C6_SameCodeWhereOnlyNearestLinks ==
    C6_Case =>
        LET n == Len(mat)
            N == Nearest(mat, n)
            S == SubSeq(mat, 1, n - 1)
        IN mat[N][1] < mat[n][1] =>
              \A full \in FullClustering(file) : \A t \in Thresholds(mat) :
                  (\A y \in 1..(n - 1) :
                      Dist(mat[n], mat[y]) <= t => y \in Component(S, N, t))
                  => Code(RowOf(OrderedMat(file, <<>>, FALSE), full, mat[n][1]), t)
                        = Code(res[n], t)

C6_Witness ==
    /\ C6_Case
    /\ Len(mat) = 4
    /\ mat[Nearest(mat, 4)][1] < mat[4][1]
    /\ MinD(mat, 4) = 0
    /\ Code(res[4], 1) < mat[Nearest(mat, 4)][1]

\* C7: in every saved matrix, of the full run and of every append run after
\* it, two profiles that share a code at a threshold share a code at every
\* higher threshold.
C7_PartitionNesting ==
    pc = "done" =>
        \A p, q \in 1..Len(saved) : \A t1, t2 \in Thresholds(mat) :
            (t1 < t2 /\ Code(saved[p], t1) = Code(saved[q], t1))
                => Code(saved[p], t2) = Code(saved[q], t2)

C7_Witness ==
    /\ AppendDone
    /\ runs = 3
    /\ start < Len(mat)
    /\ \E p \in 1..start : \E t \in Thresholds(mat) :
          /\ Code(saved[Len(mat)], 0) # Code(saved[p], 0)
          /\ Code(saved[Len(mat)], 1) = Code(saved[p], 1)
          /\ t > 1
          /\ Code(saved[p], t) # Code(saved[p], 1)

\* C8: in every saved matrix the codes of a profile do not increase with the
\* threshold and never exceed the profile's id.
C8_CodesDoNotIncrease ==
    pc = "done" =>
        \A p \in 1..Len(saved) : \A t1, t2 \in Thresholds(mat) :
            /\ Code(saved[p], t1) <= saved[p][1]
            /\ t1 < t2 => Code(saved[p], t2) <= Code(saved[p], t1)

C8_Witness ==
    /\ AppendDone
    /\ \E k \in NewPositions :
          /\ mat[k][1] < Code(res[Nearest(mat, k)], MinD(mat, k))
          /\ MinD(mat, k) = 0
    /\ \E k \in NewPositions : Code(res[k], n_loci(mat)) < Code(res[k], 0)

\* C9 (as stated): a new profile with every locus missing is a singleton at
\* every threshold after an append run: its codes are its own id and no other
\* profile carries that code.
C9_StatedSingleton ==
    AppendDone =>
        \A k \in NewPositions :
            (\A j \in 2..Len(mat[k]) : mat[k][j] <= 0) =>
                \A t \in Thresholds(mat) :
                    /\ Code(saved[k], t) = mat[k][1]
                    /\ \A q \in 1..Len(saved) : q # k => Code(saved[q], t) # mat[k][1]

\* C10: in a run without --append the attachment loop changes no row: during
\* and after the loop the matrix is the one the merge-event encoding of slc
\* produced, and at each iteration the row's code at threshold minD is not
\* greater than the nearest earlier profile's code at minD.
C10_AttachmentKeepsEncoding ==
    (pc \in {"attach", "done"} /\ ~append) =>
        /\ res = EncodeAll(mat, InitRes(mat), InitDescendents(mat), slc, 0)
        /\ (pc = "attach" /\ att < Len(mat) /\ att > 0) =>
              Code(res[att + 1], MinD(mat, att + 1))
                  <= Code(res[Nearest(mat, att + 1)], MinD(mat, att + 1))

C10_Witness ==
    /\ pc = "attach"
    /\ ~append
    /\ att = Len(mat)
    /\ Len(mat) = 3
    /\ \E k \in 2..3 : MinD(mat, k) >= 1 /\ Code(res[k], MinD(mat, k)) # mat[k][1]

====
